---------------------------- MODULE Spec2Model ----------------------------
(***************************************************************************)
(* A model of rootfs/api/models/app.py: the App model of the controller.   *)
(* One application, its instance records (Container rows), its persisted   *)
(* structure and its latest release; the scheduler client and the          *)
(* Container model are collaborators whose answers are inputs.             *)
(***************************************************************************)
EXTENDS Integers, Sequences, FiniteSets, TLC

VARIABLES
    containers,   \* container_set: per type, the rows ordered by 'created'
    structure,    \* App.structure (JSONField), a function type -> count
    version,      \* release_set.latest().version
    build,        \* release_set.latest().build (NoBuild when None)
    hasScale,     \* "scale" in dir(self._scheduler)
    hasDeploy,    \* "deploy" in dir(self._scheduler)
    last,         \* the outcome of the most recent call on the application
    assignedMax,  \* per type, the highest num given to a row by the current
                  \* unbroken run of successful scale and run calls
    faults,       \* the number of calls the scheduler has failed so far
    restart,      \* the progress of a call of App.restart
    job           \* the progress of a call of a bulk lifecycle helper

vars == <<containers, structure, version, build, hasScale, hasDeploy, last,
          assignedMax, faults, restart, job>>

\* ------------------------------------------------------------------ bounds
MaxCount == 2       \* largest replica count a caller requests
MaxKeys == 2        \* largest number of process types in one request
MaxVersion == 3     \* releases created during a run
MaxOrdinal == 3     \* largest num given to a row
MaxFaults == 1      \* calls that raise because the scheduler failed
MaxRuns == 1        \* run-once records created during a run

\* ------------------------------------------------------------------- types
Types == {"web", "worker", "cmd"}
RunType == "run"
AllTypes == Types \cup {RunType}

NoBuild == [none |-> TRUE]
NoProcfile == {"<none>"}

\* builds the caller deploys: (sha, dockerfile, procfile keys)
Build(sha, dockerfile, procfile) ==
    [sha |-> sha, dockerfile |-> dockerfile, procfile |-> procfile]

DeployBuilds ==
    { Build(TRUE, FALSE, {"web"}),
      Build(FALSE, FALSE, NoProcfile) }

EmptyStructure == [t \in {} |-> 0]

\* the structures a caller requests: any one type, or several of the types
\* some deployed build declares or 'cmd'
Structures ==
    UNION { [D -> 0..MaxCount] :
              D \in { X \in SUBSET Types :
                        /\ Cardinality(X) <= MaxKeys
                        /\ Cardinality(X) > 1 => "worker" \notin X } }

NoRows == [t \in AllTypes |-> <<>>]

Row(num, release) == [num |-> num, release |-> release]

\* ----------------------------------------------------------------- helpers
\* the positions <<t, i>> of the rows of type t from index lo to hi
Positions(t, lo, hi) == { <<t, i>> : i \in lo..hi }

\* seq restricted to the indices outside drop, order kept (Model.delete)
Keep(seq, drop) ==
    LET F[i \in 0..Len(seq)] ==
            IF i = 0 THEN <<>>
            ELSE IF i \in drop THEN F[i - 1] ELSE Append(F[i - 1], seq[i])
    IN  F[Len(seq)]

DeleteRows(cs, batch) ==
    [t \in AllTypes |-> Keep(cs[t], { i \in 1..Len(cs[t]) : <<t, i>> \in batch })]

MaxNum(seq) ==
    IF seq = <<>> THEN 0
    ELSE CHOOSE m \in { seq[i].num : i \in 1..Len(seq) } :
            \A i \in 1..Len(seq) : seq[i].num <= m

\* n new rows numbered first, first+1, ... pinned to release
NewRows(n, first, release) ==
    [i \in 1..n |-> Row(first + i - 1, release)]

\* what a call leaves behind and reports
Result(cs, st, outcome, ret, calls, assigned) ==
    [cs |-> cs, structure |-> st, outcome |-> outcome, ret |-> ret,
     calls |-> calls, assigned |-> assigned]

Procfile(b) == IF b = NoBuild \/ b.procfile = NoProcfile THEN {} ELSE b.procfile

\* ------------------------------------------------- bulk lifecycle helpers
\* what a helper leaves behind: the rows, whether it raised RuntimeError,
\* and the kinds of scheduler call it made
Helper(cs, raised, calls) == [cs |-> cs, raised |-> raised, calls |-> calls]

\* the sets of rows of a batch for which a scheduler call may fail
Failing(batch) == IF faults < MaxFaults THEN SUBSET batch ELSE { {} }

\* App._destroy_containers: every subset F of the batch may fail to reach
\* 'destroyed'; the rows that reached it are deleted
DestroyContainers(cs, batch) ==
    IF batch = {} THEN { Helper(cs, FALSE, {}) }
    ELSE IF ~hasScale
    THEN { Helper(DeleteRows(cs, batch \ F), F # {}, {"destroy"}) : F \in Failing(batch) }
    ELSE { Helper(DeleteRows(cs, batch), FALSE, {}) }

\* App._start_containers: FC are the rows whose create fails, FS the rows
\* whose start fails
StartContainers(cs, batch) ==
    IF batch = {} THEN { Helper(cs, FALSE, {}) }
    ELSE UNION {
        IF FC # {}
        THEN { Helper(d.cs, TRUE, {"create"} \cup d.calls) :
                 d \in DestroyContainers(cs, batch) }
        ELSE { Helper(cs, FALSE, {"create", "start"}) }
        : FC \in Failing(batch) }

\* ------------------------------------------------------------------- scale
\* the check without its exemption of 'cmd'
UnknownTypesNoCmd(S, b) == { t \in DOMAIN S : t \notin Procfile(b) }

\* lines 261-267: a requested type other than 'cmd' must be in the procfile
UnknownTypes(S, b) == { t \in DOMAIN S : t # "cmd" /\ t \notin Procfile(b) }

\* line 284
Diff(cs, S, t) == S[t] - Len(cs[t])

\* the number of the newest row given again
ContainerNumStale(seq) == MaxNum(seq)

\* line 282: container_num = (num__max or 0) + 1
ContainerNum(seq) == MaxNum(seq) + 1

\* lines 278-304: the rows after the loop created the additions
ScaleAdded(cs, S) ==
    [t \in AllTypes |->
        IF t \in DOMAIN S /\ Diff(cs, S, t) > 0
        THEN cs[t] \o NewRows(Diff(cs, S, t), ContainerNum(cs[t]), version)
        ELSE cs[t]]

\* lines 295-304: to_add, as positions in ScaleAdded
ToAdd(cs, S) ==
    UNION { Positions(t, Len(cs[t]) + 1, S[t]) : t \in { u \in DOMAIN S : Diff(cs, S, u) > 0 } }

\* lines 290-293: to_remove, the rows popped off the end of the list
\* ordered by 'created'
ToRemove(cs, S) ==
    UNION { Positions(t, S[t] + 1, Len(cs[t])) : t \in { u \in DOMAIN S : Diff(cs, S, u) < 0 } }

\* lines 285-289
ScaleTypes(cs, S) == { t \in DOMAIN S : Diff(cs, S, t) # 0 }

\* the (type, num) pairs given to the rows a scale creates
ScaleAssigned(cs, S) ==
    { <<p[1], ScaleAdded(cs, S)[p[1]][p[2]].num>> : p \in ToAdd(cs, S) }

\* the counts taken over every row, the 'run' rows included
NewStructureWithRun(S, cs) ==
    [t \in DOMAIN S \cup { u \in AllTypes : Len(cs[u]) > 0 } |->
        IF Len(cs[t]) > 0 THEN Len(cs[t]) ELSE S[t]]

\* lines 316-321: the requested counts overridden by the actual counts of
\* the non-'run' rows
NewStructure(S, cs) ==
    [t \in DOMAIN S \cup { u \in Types : Len(cs[u]) > 0 } |->
        IF t \in Types /\ Len(cs[t]) > 0 THEN Len(cs[t]) ELSE S[t]]

\* lines 316-323: persist the structure, then App.save runs create() again
SaveStructure(cs, S, changed, calls, assigned) ==
    { Result(cs, NewStructure(S, cs), "ok", changed, calls, assigned),
      Result(cs, NewStructure(S, cs), "SchedulerError", "None", calls, assigned) }

\* the removed rows left in place after the scheduler scaled
ScaleContainersKeep(cs, S, toRemove, calls, assigned) ==
    { Result(cs, structure, "SchedulerError", "None", calls \cup {"scale"}, assigned) }
    \cup SaveStructure(cs, S, "True", calls \cup {"scale"}, assigned)

\* App._scale_containers: one scheduler scale per changed type; a failing
\* call is logged and re-raised, otherwise the removed rows are deleted
ScaleContainers(cs, S, toRemove, calls, assigned) ==
    { Result(cs, structure, "SchedulerError", "None", calls \cup {"scale"}, assigned) }
    \cup SaveStructure(DeleteRows(cs, toRemove), S, "True", calls \cup {"scale"}, assigned)

\* lines 310-314: the per-instance path
ScalePerInstance(cs, S, toAdd, toRemove, calls, assigned) ==
    UNION {
        IF a.raised
        THEN { Result(a.cs, structure, "RuntimeError", "None", calls \cup a.calls, assigned) }
        ELSE UNION {
            IF d.raised
            THEN { Result(d.cs, structure, "RuntimeError", "None",
                          calls \cup a.calls \cup d.calls, assigned) }
            ELSE SaveStructure(d.cs, S, "True", calls \cup a.calls \cup d.calls, assigned)
            : d \in DestroyContainers(a.cs, toRemove) }
        : a \in StartContainers(cs, toAdd) }

\* App.scale, after create() succeeded and the validation passed
ScaleValid(cs, S) ==
    IF ScaleTypes(cs, S) = {}
    THEN SaveStructure(cs, S, "False", {"ns_create"}, {})
    ELSE IF hasScale
    THEN ScaleContainers(ScaleAdded(cs, S), S, ToRemove(cs, S), {"ns_create"},
                         ScaleAssigned(cs, S))
    ELSE ScalePerInstance(ScaleAdded(cs, S), S, ToAdd(cs, S), ToRemove(cs, S),
                          {"ns_create"}, ScaleAssigned(cs, S))

\* the validation run after the rows were scaled
ScaleOutcomesLate(S) ==
    { Result(containers, structure, "SchedulerError", "None", {"ns_create"}, {}) }
    \cup
    ( IF build = NoBuild \/ UnknownTypes(S, build) # {}
      THEN { Result(containers, structure, "EnvironmentError", "None",
                    {"ns_create", "scale"}, {}) }
      ELSE ScaleValid(containers, S) )

\* App.scale: every outcome of scale(user, S) in the current state
ScaleOutcomes(S) ==
    { Result(containers, structure, "SchedulerError", "None", {"ns_create"}, {}) }
    \cup
    ( IF build = NoBuild \/ UnknownTypes(S, build) # {}
      THEN { Result(containers, structure, "EnvironmentError", "None", {"ns_create"}, {}) }
      ELSE ScaleValid(containers, S) )

\* the record of a call: again says that the call before it was the same
\* call and returned
Called(op, arg, r) ==
    [op |-> op, arg |-> arg, outcome |-> r.outcome, ret |-> r.ret, calls |-> r.calls,
     again |-> (last.op = op /\ last.outcome = "ok" /\ last.arg = arg),
     pods |-> <<>>, deployed |-> FALSE]

NoneAssigned == [t \in AllTypes |-> 0]

\* the highest num among the (type, num) pairs and the earlier maximum
Highest(assigned, t, m) ==
    CHOOSE n \in {m} \cup { a[2] : a \in assigned } :
        /\ \A a \in assigned : a[1] = t => (a[2] <= n \/ a[2] <= m)
        /\ n >= m
        /\ (n = m \/ \E a \in assigned : a[1] = t /\ a[2] = n)

\* the history of the run of successful scale and run calls
Track(r) ==
    IF r.outcome = "ok"
    THEN [t \in AllTypes |-> Highest(r.assigned, t, assignedMax[t])]
    ELSE NoneAssigned

\* the calls that raise for another reason than validation
Faulty(r) == r.outcome \notin {"ok", "EnvironmentError"}

\* the outcomes within the bounds of the model
Bounded(r) ==
    /\ Faulty(r) => faults < MaxFaults
    /\ \A a \in r.assigned : a[2] <= MaxOrdinal

Scale(S) ==
    \E r \in ScaleOutcomes(S) :
        /\ Bounded(r)
        /\ faults' = faults + (IF Faulty(r) THEN 1 ELSE 0)
        /\ containers' = r.cs
        /\ structure' = r.structure
        /\ last' = Called("scale", S, r)
        /\ assignedMax' = Track(r)
        /\ UNCHANGED <<version, build, hasScale, hasDeploy, restart, job>>

\* --------------------------------------------------------------------- run
\* line 534
RunNum(cs) == MaxNum(cs[RunType]) + 1

\* the build checked after the row was created and run
RunOutcomesLate ==
    LET cs == [containers EXCEPT
                 ![RunType] = Append(@, Row(RunNum(containers), version))]
    IN  IF build = NoBuild
        THEN { Result(cs, structure, "EnvironmentError", "None", {"run"},
                      { <<RunType, RunNum(containers)>> }) }
        ELSE { Result(cs, structure, "ok", "output", {"run"},
                      { <<RunType, RunNum(containers)>> }),
               Result(cs, structure, "SchedulerError", "None", {"run"},
                      { <<RunType, RunNum(containers)>> }) }

\* App.run: c.run may raise after the row was created
RunOutcomes ==
    IF build = NoBuild
    THEN { Result(containers, structure, "EnvironmentError", "None", {}, {}) }
    ELSE LET cs == [containers EXCEPT
                      ![RunType] = Append(@, Row(RunNum(containers), version))]
         IN  { Result(cs, structure, "ok", "output", {"run"}, { <<RunType, RunNum(containers)>> }),
               Result(cs, structure, "SchedulerError", "None", {"run"},
                      { <<RunType, RunNum(containers)>> }) }

Run ==
    /\ Len(containers[RunType]) < MaxRuns
    /\ \E r \in RunOutcomes :
        /\ Bounded(r)
        /\ faults' = faults + (IF Faulty(r) THEN 1 ELSE 0)
        /\ containers' = r.cs
        /\ structure' = r.structure
        /\ last' = Called("run", "command", r)
        /\ assignedMax' = Track(r)
        /\ UNCHANGED <<version, build, hasScale, hasDeploy, restart, job>>

\* ------------------------------------------------------------------ deploy
\* lines 418-425: every non-'run' row is cloned onto the release; the
\* clones are created after the rows they copy, in the order of the rows
Cloned(cs, release) ==
    [t \in AllTypes |->
        IF t = RunType THEN cs[t]
        ELSE cs[t] \o [i \in 1..Len(cs[t]) |-> Row(cs[t][i].num, release)]]

\* line 418: existing, as positions
Existing(cs) == UNION { Positions(t, 1, Len(cs[t])) : t \in Types }

\* line 424: new, as positions in Cloned
Clones(cs) == UNION { Positions(t, Len(cs[t]) + 1, 2 * Len(cs[t])) : t \in Types }

RowsAssigned(cs, batch) == { <<p[1], cs[p[1]][p[2]].num>> : p \in batch }

\* the chain of tests without the test for a Dockerfile
DefaultStructureNoDockerfile(b) ==
    IF ~b.sha THEN [t \in {"cmd"} |-> 1]
    ELSE IF Procfile(b) # {} /\ "web" \notin Procfile(b) THEN [t \in {"cmd"} |-> 1]
    ELSE [t \in {"web"} |-> 1]

\* lines 475-488
DefaultStructure(b) ==
    IF ~b.sha THEN [t \in {"cmd"} |-> 1]
    ELSE IF b.dockerfile /\ Procfile(b) = {} THEN [t \in {"cmd"} |-> 1]
    ELSE IF Procfile(b) # {} /\ "web" \notin Procfile(b) THEN [t \in {"cmd"} |-> 1]
    ELSE [t \in {"web"} |-> 1]

\* App._deploy_app: one scheduler deploy per type; a failing call is logged
\* and re-raised, otherwise the existing rows are deleted. A client without
\* a deploy attribute fails the first call.
DeployApp(cs, existing) ==
    { Helper(cs, TRUE, {"deploy"}) }
    \cup ( IF hasDeploy THEN { Helper(DeleteRows(cs, existing), FALSE, {"deploy"}) } ELSE {} )

\* App._default_scale: on a client with scale only the deploy call is made;
\* otherwise a row numbered with the count is created and started
DefaultScale(cs, b, release) ==
    LET st == DefaultStructure(b)
        key == CHOOSE t \in DOMAIN st : TRUE
        cs1 == [cs EXCEPT ![key] = Append(@, Row(st[key], release))]
    IN  IF hasScale
        THEN { [h EXCEPT !.calls = @ \cup {"default"}] : h \in DeployApp(cs, {}) }
        ELSE { [h EXCEPT !.calls = @ \cup {"default"}] :
                 h \in StartContainers(cs1, { <<key, Len(cs1[key])>> }) }

\* lines 436-438
DeployTail(cs, b, release, calls, assigned) ==
    IF structure = EmptyStructure /\ b # NoBuild
    THEN { Result(h.cs, structure, IF h.raised THEN "RuntimeError" ELSE "ok", "None",
                  calls \cup h.calls,
                  assigned \cup ( IF hasScale THEN {}
                                  ELSE { <<t, DefaultStructure(b)[t]>> :
                                           t \in DOMAIN DefaultStructure(b) } )) :
             h \in DefaultScale(cs, b, release) }
    ELSE { Result(cs, structure, "ok", "None", calls, assigned) }

\* lines 427-434
DeployBody(cs, b, release, calls, assigned) ==
    IF Clones(cs) # {} /\ hasDeploy
    THEN UNION {
        IF h.raised
        THEN { Result(h.cs, structure, "SchedulerError", "None", calls \cup h.calls, assigned) }
        ELSE DeployTail(h.cs, b, release, calls \cup h.calls, assigned)
        : h \in DeployApp(Cloned(cs, release), Existing(cs)) }
    ELSE UNION {
        IF a.raised
        THEN { Result(a.cs, structure, "RuntimeError", "None", calls \cup a.calls, assigned) }
        ELSE UNION {
            IF d.raised
            THEN { Result(d.cs, structure, "RuntimeError", "None",
                          calls \cup a.calls \cup d.calls, assigned) }
            ELSE DeployTail(d.cs, b, release, calls \cup a.calls \cup d.calls, assigned)
            : d \in DestroyContainers(a.cs, Existing(cs)) }
        : a \in StartContainers(Cloned(cs, release), Clones(cs)) }

\* App.deploy: every outcome of deploy(user, release) for a new release of
\* build b
DeployOutcomes(b, release) ==
    { Result(containers, structure, "SchedulerError", "None", {"ns_create"}, {}) }
    \cup DeployBody(containers, b, release, {"ns_create"},
                    RowsAssigned(containers, Existing(containers)))

\* a new release is cut from build b and deployed
Deploy(b) ==
    /\ version < MaxVersion
    /\ version' = version + 1
    /\ build' = b
    /\ \E r \in DeployOutcomes(b, version + 1) :
        /\ Bounded(r)
        /\ faults' = faults + (IF Faulty(r) THEN 1 ELSE 0)
        /\ containers' = r.cs
        /\ structure' = r.structure
        /\ last' = Called("deploy", b, r)
        /\ assignedMax' = NoneAssigned
    /\ UNCHANGED <<hasScale, hasDeploy, restart, job>>

\* --------------------------------------------------------------- list pods
\* "v{}".format(release.version)
VersionLabel(n) == <<"v", n>>

NoName == <<>>
NoType == "<any>"
NoRelease == 0
NoStart == 0        \* a raw record without status.startTime
Now == 9            \* datetime.utcnow(), later than every start time

\* a pod as the scheduler holds it; a name is <<version, tail>>, the short
\* form of a name has no version
RawPod(name, type, ver, state, started) ==
    [name |-> name, type |-> type, version |-> VersionLabel(ver), state |-> state,
     started |-> started]

Kwargs(name, type, release) == [name |-> name, type |-> type, release |-> release]

\* release_set.get(version=...) finds the release
ReleaseExists(kw) == kw.release = NoRelease \/ kw.release \in 1..version

\* App._scheduler_filter: the labels of the latest or the requested release
SchedulerFilter(kw) ==
    [version |-> VersionLabel(IF kw.release = NoRelease THEN version ELSE kw.release),
     type |-> kw.type]

\* scheduler._get_pods(namespace, labels): the pods carrying the labels
GetPods(raw, labels) ==
    { p \in raw : /\ p.version = labels.version
                  /\ labels.type = NoType \/ p.type = labels.type }

\* scheduler._get_pod(namespace, name): the pod of that name
GetPod(raw, name) == { p \in raw : p.name = name }

\* lines 563-574: the Pod projection of a raw record
Item(p) ==
    [name |-> p.name, state |-> p.state, release |-> p.version, type |-> p.type,
     started |-> IF p.started = NoStart THEN Now ELSE p.started]

\* line 577: latest start first
SortByStarted(items) ==
    LET F[S \in SUBSET items] ==
            IF S = {} THEN <<>>
            ELSE LET m == CHOOSE x \in S : \A y \in S : y.started <= x.started
                 IN  <<m>> \o F[S \ {m}]
    IN  F[items]

Listing(kind, pods) == [kind |-> kind, pods |-> pods]

\* the pods of type 'run' listed with the others
ListPodsWithRun(kw, raw, answer) ==
    IF ~ReleaseExists(kw) \/ answer = "error" THEN Listing("raise", <<>>)
    ELSE IF answer = "not_found" THEN Listing("none", <<>>)
    ELSE IF kw.name # NoName /\ GetPod(raw, kw.name) = {} THEN Listing("none", <<>>)
    ELSE LET pods == IF kw.name # NoName THEN GetPod(raw, kw.name)
                     ELSE GetPods(raw, SchedulerFilter(kw))
         IN  Listing("list", SortByStarted({ Item(p) : p \in pods }))

\* App.list_pods: a list, nothing when the scheduler answers 'not found',
\* or the error of the scheduler or of the release lookup raised again
ListPods(kw, raw, answer) ==
    IF ~ReleaseExists(kw) \/ answer = "error" THEN Listing("raise", <<>>)
    ELSE IF answer = "not_found" THEN Listing("none", <<>>)
    ELSE IF kw.name # NoName /\ GetPod(raw, kw.name) = {} THEN Listing("none", <<>>)
    ELSE LET pods == IF kw.name # NoName THEN GetPod(raw, kw.name)
                     ELSE GetPods(raw, SchedulerFilter(kw))
         IN  Listing("list", SortByStarted({ Item(p) : p \in { q \in pods : q.type # RunType } }))

Answers == {"ok", "not_found", "error"}

\* the pods the scheduler may hold when the application is listed
PodUniverse ==
    { RawPod(<<version - 1, "web-a">>, "web", version - 1, "up", 1),
      RawPod(<<version, "web-b">>, "web", version, "up", 2),
      RawPod(<<version, "cmd-c">>, "cmd", version, "down", NoStart),
      RawPod(<<version, "run-d">>, RunType, version, "up", 3) }

ListKwargs ==
    { Kwargs(n, t, r) :
        n \in {NoName, <<version - 1, "web-a">>, <<version, "run-d">>},
        t \in {NoType, "web"},
        r \in {NoRelease, version - 1} }

ListPodsCall ==
    \E kw \in ListKwargs, raw \in SUBSET PodUniverse, answer \in Answers :
        LET l == ListPods(kw, raw, answer)
        IN  /\ last' = [op |-> "list_pods", arg |-> kw,
                        outcome |-> IF l.kind = "raise" THEN "Error" ELSE "ok",
                        ret |-> l.kind,
                        calls |-> IF ~ReleaseExists(kw) THEN {}
                                  ELSE IF kw.name # NoName THEN {"get_pod"}
                                  ELSE {"get_pods"},
                        again |-> FALSE, pods |-> l.pods,
                        deployed |-> (last.op = "deploy" /\ last.outcome = "ok")]
            /\ UNCHANGED <<containers, structure, version, build, hasScale, hasDeploy,
                           assignedMax, faults, restart, job>>

\* ----------------------------------------------------------------- restart
Timeout == 300      \* line 193
Interval == 5       \* line 217
MaxReplicas == 2    \* largest sum of the replicas of the matching controllers

Idle ==
    [pc |-> "idle", kw |-> Kwargs(NoName, NoType, NoRelease), desired |-> 0,
     elapsed |-> 0, outcome |-> "-", ret |-> "-", pods |-> <<>>, warnings |-> {},
     converged |-> FALSE, matched |-> FALSE, errored |-> FALSE,
     resolved |-> FALSE, listed |-> 0, deletes |-> 0, polls |-> 0]

\* line 162: name.count('-'); a short name is type-suffix, a full name
\* app-version-type-suffix
Hyphens(name) == IF name[1] = 0 THEN 1 ELSE 3

\* lines 162-169: a short name is completed with the version of the release
ResolveName(kw) ==
    IF kw.name # NoName /\ Hyphens(kw.name) = 1
    THEN <<IF kw.release = NoRelease THEN version ELSE kw.release, kw.name[2]>>
    ELSE kw.name

\* the pods the scheduler may hold while the application restarts
RestartRaws ==
    { a \cup b :
        a \in { {} } \cup { { RawPod(<<version, "web-a">>, "web", version, st, 1) } :
                                st \in {"up", "down"} },
        b \in { {} } \cup { { RawPod(<<version, "web-b">>, "web", version, st, 2) } :
                                st \in {"up", "down"} } }

RestartKwargs ==
    { Kwargs(NoName, t, r) : t \in {NoType, "web"}, r \in {NoRelease, 1, MaxVersion + 1} }
    \cup { Kwargs(n, NoType, r) : n \in { <<0, "web-a">>, <<version, "web-b">> },
                                   r \in {NoRelease, 1, MaxVersion + 1} }

\* every answer list_pods may give to the kwargs
ListPodsOutcomes(kw) == { ListPods(kw, raw, a) : raw \in RestartRaws, a \in Answers }

\* line 203: del kwargs['name']
WithoutName(kw) == [kw EXCEPT !.name = NoName]

\* lines 209-212
Actual(pods) == Cardinality({ i \in 1..Len(pods) : pods[i].state = "up" })

\* restart returns or raises
Finish(r, outcome, ret, pods) ==
    [r EXCEPT !.pc = "done", !.outcome = outcome, !.ret = ret, !.pods = pods]

\* lines 160-181: the name is resolved, or the desired count is summed over
\* the matching replication controllers
RestartBegin(kw) ==
    /\ restart.pc \in {"idle", "done"}
    /\ LET short == kw.name # NoName /\ Hyphens(kw.name) = 1
           r0 == [Idle EXCEPT !.kw = [kw EXCEPT !.name = ResolveName(kw)]]
       IN  IF (short \/ kw.name = NoName) /\ ~ReleaseExists(kw)
           THEN restart' = Finish([r0 EXCEPT !.errored = TRUE], "raise", "-", <<>>)
           ELSE IF kw.name # NoName
           THEN restart' = [r0 EXCEPT !.pc = "delete", !.desired = 1, !.resolved = TRUE]
           ELSE \E answer \in {"ok", "kube", "error"} :
                   IF answer = "kube"
                   THEN restart' = Finish(r0, "return", "list", <<>>)
                   ELSE IF answer = "error"
                   THEN restart' = Finish([r0 EXCEPT !.errored = TRUE], "raise", "-", <<>>)
                   ELSE \E d \in 0..MaxReplicas :
                           restart' = [r0 EXCEPT !.pc = "delete", !.desired = d,
                                                 !.matched = d > 0, !.resolved = TRUE]
    /\ UNCHANGED <<containers, structure, version, build, hasScale, hasDeploy, last,
                   assignedMax, faults, job>>

\* lines 184-186: the number of deletes issued for the listed pods when the
\* k-th delete is the first that fails (k = 0: none fails); the failure
\* leaves the loop
DeletesIssued(pods, k) == IF k = 0 THEN Len(pods) ELSE k

\* lines 183-189: the listed pods are deleted one after the other; the first
\* failure, of the listing or of a delete, ends the loop with a warning
RestartDelete ==
    /\ restart.pc = "delete"
    /\ \E l \in ListPodsOutcomes(restart.kw) :
          \E k \in 0..Len(l.pods) :
             restart' =
                [restart EXCEPT
                    !.pc = "poll",
                    !.elapsed = 0,
                    !.listed = Len(l.pods),
                    !.deletes = DeletesIssued(l.pods, k),
                    !.warnings = IF l.kind # "list" \/ k > 0 THEN @ \cup {"stop"} ELSE @,
                    !.matched = @ \/ (l.kind = "list" /\ l.pods # <<>>),
                    !.errored = @ \/ l.kind = "raise" \/ k > 0]
    /\ UNCHANGED <<containers, structure, version, build, hasScale, hasDeploy, last,
                   assignedMax, faults, job>>

\* a round that does not count the time it waited
PolledStuck(r, kw, l) ==
    IF l.kind # "list"
    THEN [r EXCEPT !.pc = "final", !.kw = kw, !.warnings = @ \cup {"start"},
                   !.errored = @ \/ l.kind = "raise", !.polls = @ + 1]
    ELSE IF Actual(l.pods) = r.desired
    THEN [r EXCEPT !.pc = "final", !.kw = kw, !.converged = TRUE,
                   !.matched = @ \/ l.pods # <<>>, !.polls = @ + 1]
    ELSE [r EXCEPT !.kw = kw, !.matched = @ \/ l.pods # <<>>, !.polls = @ + 1]

\* what one round of the loop of lines 195-218 makes of the listing l of
\* the kwargs kw
Polled(r, kw, l) ==
    IF l.kind # "list"
    THEN [r EXCEPT !.pc = "final", !.kw = kw, !.warnings = @ \cup {"start"},
                   !.errored = @ \/ l.kind = "raise", !.polls = @ + 1]
    ELSE IF Actual(l.pods) = r.desired
    THEN [r EXCEPT !.pc = "final", !.kw = kw, !.converged = TRUE,
                   !.matched = @ \/ l.pods # <<>>, !.polls = @ + 1]
    ELSE [r EXCEPT !.kw = kw, !.elapsed = @ + Interval, !.matched = @ \/ l.pods # <<>>,
                   !.polls = @ + 1]

\* lines 195-222: one round of the loop
RestartPoll ==
    /\ restart.pc = "poll"
    /\ IF restart.elapsed >= Timeout
       THEN restart' = [restart EXCEPT !.pc = "final", !.warnings = @ \cup {"timeout"}]
       ELSE IF restart.kw.name = NoName
       THEN \E l \in ListPodsOutcomes(restart.kw) : restart' = Polled(restart, restart.kw, l)
       ELSE \E newest \in ListPodsOutcomes(WithoutName(restart.kw)) :
               IF newest.kind # "list" \/ newest.pods = <<>>
               THEN restart' =
                       [restart EXCEPT !.pc = "final", !.kw = WithoutName(@),
                                       !.warnings = @ \cup {"start"},
                                       !.errored = @ \/ newest.kind = "raise",
                                       !.polls = @ + 1]
               ELSE LET kw == [restart.kw EXCEPT !.name = newest.pods[1].name]
                    IN  \E l \in ListPodsOutcomes(kw) :
                           restart' = Polled([restart EXCEPT !.matched = TRUE], kw, l)
    /\ UNCHANGED <<containers, structure, version, build, hasScale, hasDeploy, last,
                   assignedMax, faults, job>>

\* lines 224-226: the last listing is returned as it is
RestartFinal ==
    /\ restart.pc = "final"
    /\ \E l \in ListPodsOutcomes(restart.kw) :
          restart' =
            IF l.kind = "raise"
            THEN Finish([restart EXCEPT !.errored = TRUE], "raise", "-", <<>>)
            ELSE Finish([restart EXCEPT !.matched = @ \/ l.pods # <<>>],
                        "return", l.kind, l.pods)
    /\ UNCHANGED <<containers, structure, version, build, hasScale, hasDeploy, last,
                   assignedMax, faults, job>>

\* ------------------------------------------ bulk lifecycle, task by task
MaxBatch == 2       \* largest number of rows of one type in a batch

\* a record of a batch: the type, the num and the release of its row
Id(t, row) == <<t, row.num, row.release>>

Ids(cs, types) == UNION { { Id(t, cs[t][i]) : i \in 1..Len(cs[t]) } : t \in types }

Persisted(cs, id) == id \in Ids(cs, AllTypes)

PositionsOf(cs, ids) ==
    UNION { { <<t, i>> : i \in { k \in 1..Len(cs[t]) : Id(t, cs[t][k]) \in ids } } :
              t \in AllTypes }

\* [Thread(target=...) for c in batch]: one thread per record, not started
Threads(batch) == [i \in batch |-> "new"]

Phases == {"create", "start", "stop", "destroy"}

NoJob ==
    [op |-> "none", pc |-> "idle", batch |-> {}, state |-> Threads({}),
     create_threads |-> Threads({}), start_threads |-> Threads({}),
     stop_threads |-> Threads({}), destroy_threads |-> Threads({}),
     reached |-> {}, log |-> {}, outcome |-> "-", deleted |-> FALSE,
     todo |-> {}, called |-> <<>>, failed |-> "-", existing |-> {}, clones |-> {}]

\* a helper is entered with a batch whose records are in state entry
Entered(op, pc, batch, entry) ==
    [NoJob EXCEPT !.op = op, !.pc = pc, !.batch = batch,
                  !.state = [i \in batch |-> entry],
                  !.create_threads = Threads(batch), !.start_threads = Threads(batch),
                  !.stop_threads = Threads(batch), !.destroy_threads = Threads(batch)]

ThreadsOf(j, phase) ==
    CASE phase = "create" -> j.create_threads
      [] phase = "start" -> j.start_threads
      [] phase = "stop" -> j.stop_threads
      [] phase = "destroy" -> j.destroy_threads

SetThread(j, phase, i, v) ==
    CASE phase = "create" -> [j EXCEPT !.create_threads[i] = v]
      [] phase = "start" -> [j EXCEPT !.start_threads[i] = v]
      [] phase = "stop" -> [j EXCEPT !.stop_threads[i] = v]
      [] phase = "destroy" -> [j EXCEPT !.destroy_threads[i] = v]

\* the state a Container method leaves its record in when it succeeds
Target(phase) ==
    CASE phase = "create" -> "created"
      [] phase = "start" -> "up"
      [] phase = "stop" -> "created"
      [] phase = "destroy" -> "destroyed"

\* and when it fails
OnError(phase) == IF phase = "start" THEN "crashed" ELSE "error"

\* the join returns as soon as one thread has finished
JoinedAny(threads) == \E i \in DOMAIN threads : threads[i] = "done"

\* [t.join() for t in threads]: every thread has finished
Joined(threads) == \A i \in DOMAIN threads : threads[i] = "done"

\* the stragglers deleted with the others
DeleteDestroyedAll(cs, j) == DeleteRows(cs, PositionsOf(cs, j.batch))

\* line 405: [c.delete() for c in to_destroy if c.state == 'destroyed']
DeleteDestroyed(cs, j) ==
    DeleteRows(cs, PositionsOf(cs, { i \in j.batch : j.state[i] = "destroyed" }))

\* the helper returning whether or not a record is left
AfterDestroyQuiet(j, raised) ==
    CASE j.op = "destroy" -> [j EXCEPT !.pc = "done", !.outcome = "return"]
      [] j.op = "start" -> [j EXCEPT !.pc = "done", !.outcome = "RuntimeError"]
      [] j.op = "delete" -> [j EXCEPT !.pc = "done", !.outcome = "return", !.deleted = TRUE]

\* what follows App._destroy_containers in its caller: the helper itself
\* returns or raises (line 409); _start_containers raises (line 371);
\* App.delete passes over a RuntimeError, cleans the logs and deletes the
\* application (lines 150-153)
AfterDestroy(j, raised) ==
    CASE j.op = "destroy" ->
            [j EXCEPT !.pc = "done", !.outcome = IF raised THEN "RuntimeError" ELSE "return"]
      [] j.op = "start" -> [j EXCEPT !.pc = "done", !.outcome = "RuntimeError"]
      [] j.op = "delete" -> [j EXCEPT !.pc = "done", !.outcome = "return", !.deleted = TRUE]

\* App._destroy_containers is entered for the batch of j (lines 397-411):
\* nothing to do, the rows just deleted on a client with scale, or the
\* destroy threads
DestroyEntered(j, cs) ==
    IF j.batch = {} THEN [job |-> AfterDestroy(j, FALSE), cs |-> cs]
    ELSE IF hasScale
    THEN [job |-> AfterDestroy(j, FALSE), cs |-> DeleteRows(cs, PositionsOf(cs, j.batch))]
    ELSE [job |-> [j EXCEPT !.pc = "destroy"], cs |-> cs]

\* the variables no bulk helper touches
BulkUnchanged ==
    UNCHANGED <<structure, version, build, hasScale, hasDeploy, last, assignedMax,
                faults, restart>>

\* App._start_containers(to_add) for rows just created; scale and deploy
\* reach it on a client without scale
BeginStart(batch) ==
    /\ job.pc = "idle"
    /\ ~hasScale
    /\ job' = IF batch = {}
              THEN [Entered("start", "done", batch, "initialized") EXCEPT !.outcome = "return"]
              ELSE Entered("start", "create", batch, "initialized")
    /\ UNCHANGED containers
    /\ BulkUnchanged

\* App._restart_containers(to_restart), called by restart_old
BeginRestartOld(batch) ==
    /\ job.pc = "idle"
    /\ job' = IF batch = {}
              THEN [Entered("restart", "done", batch, "up") EXCEPT !.outcome = "return"]
              ELSE Entered("restart", "stop", batch, "up")
    /\ UNCHANGED containers
    /\ BulkUnchanged

\* App._destroy_containers(to_destroy)
BeginDestroy(batch) ==
    /\ job.pc = "idle"
    /\ LET r == DestroyEntered(Entered("destroy", "idle", batch, "up"), containers)
       IN  job' = r.job /\ containers' = r.cs
    /\ BulkUnchanged

\* App.delete, lines 146-153: the namespace is destroyed first; an error of
\* the scheduler other than RuntimeError leaves delete, a RuntimeError is
\* passed over
BeginDelete ==
    /\ job.pc = "idle"
    /\ \E answer \in {"ok", "RuntimeError", "Error"} :
          LET j == Entered("delete", "idle", Ids(containers, Types), "up")
              r == DestroyEntered(j, containers)
          IN  CASE answer = "ok" -> job' = r.job /\ containers' = r.cs
                [] answer = "RuntimeError" ->
                     /\ job' = [j EXCEPT !.pc = "done", !.outcome = "return",
                                         !.deleted = TRUE, !.failed = "namespace"]
                     /\ UNCHANGED containers
                [] answer = "Error" ->
                     /\ job' = [j EXCEPT !.pc = "done", !.outcome = "Error",
                                         !.failed = "namespace"]
                     /\ UNCHANGED containers
    /\ BulkUnchanged

\* t.start() of the thread of record i in the phase the helper is in
Spawn(i) ==
    /\ job.pc \in Phases
    /\ i \in job.batch
    /\ ThreadsOf(job, job.pc)[i] = "new"
    /\ job' = SetThread(job, job.pc, i, "running")
    /\ UNCHANGED containers
    /\ BulkUnchanged

\* the Container method of a running thread returns or fails
TaskDone(phase, i) ==
    /\ i \in job.batch
    /\ ThreadsOf(job, phase)[i] = "running"
    /\ \E ok \in BOOLEAN :
          job' = [SetThread(job, phase, i, "done") EXCEPT
                    !.state[i] = IF ok THEN Target(phase) ELSE OnError(phase),
                    !.reached = IF ok /\ phase \in {"create", "stop"} THEN @ \cup {i} ELSE @]
    /\ UNCHANGED containers
    /\ BulkUnchanged

\* lines 366-372: after the join, any record not 'created' aborts the start
JoinCreate ==
    /\ job.pc = "create"
    /\ Joined(job.create_threads)
    /\ IF \E i \in job.batch : job.state[i] # "created"
       THEN LET r == DestroyEntered([job EXCEPT !.log = @ \cup {"error: create"}], containers)
            IN  job' = r.job /\ containers' = r.cs
       ELSE job' = [job EXCEPT !.pc = "start"] /\ UNCHANGED containers
    /\ BulkUnchanged

\* lines 385-389: after the join, a record not 'created' is a warning only
JoinStop ==
    /\ job.pc = "stop"
    /\ Joined(job.stop_threads)
    /\ job' = [job EXCEPT !.pc = "start",
                          !.log = IF \E i \in job.batch : job.state[i] # "created"
                                  THEN @ \cup {"warning: stop"} ELSE @]
    /\ UNCHANGED containers
    /\ BulkUnchanged

\* a record not 'up' after the join fails the helper
JoinStartStrict ==
    /\ job.pc = "start"
    /\ Joined(job.start_threads)
    /\ job' = IF \E i \in job.batch : job.state[i] # "up"
              THEN [job EXCEPT !.pc = "done", !.outcome = "RuntimeError"]
              ELSE [job EXCEPT !.pc = "done", !.outcome = "return"]
    /\ UNCHANGED containers
    /\ BulkUnchanged

\* lines 373-376 and 390-393: after the join, a record not 'up' is a
\* warning only
JoinStart ==
    /\ job.pc = "start"
    /\ Joined(job.start_threads)
    /\ job' = [job EXCEPT !.pc = "done", !.outcome = "return",
                          !.log = IF \E i \in job.batch : job.state[i] # "up"
                                  THEN @ \cup {"warning: start"} ELSE @]
    /\ UNCHANGED containers
    /\ BulkUnchanged

\* lines 404-409: after the join the rows of the destroyed records are
\* deleted; any straggler is an error
JoinDestroy ==
    /\ job.pc = "destroy"
    /\ Joined(job.destroy_threads)
    /\ containers' = DeleteDestroyed(containers, job)
    /\ job' = IF \E i \in job.batch : job.state[i] # "destroyed"
              THEN AfterDestroy([job EXCEPT !.log = @ \cup {"error: destroy"}], TRUE)
              ELSE AfterDestroy(job, FALSE)
    /\ BulkUnchanged

\* ------------------------------------------------ bulk deploy, call by call
\* App._get_job_id: app-version-type, of the latest release
JobId(t) == <<"app", VersionLabel(version), t>>

\* the types of the rows at the positions (line 425)
TypesOf(batch) == { p[1] : p \in batch }

\* the failure logged, and the loop going on with the next type
DeployFailedGoOn(j, t) ==
    [j EXCEPT !.called = Append(@, t), !.todo = @ \ {t}, !.failed = t,
              !.log = @ \cup { <<"error", JobId(t), "(deploy)">> }]

\* lines 466-469: the failure of the deploy call for type t is logged with
\* the job id and raised again; deploy does not catch it
DeployFailed(j, t) ==
    [j EXCEPT !.called = Append(@, t), !.failed = t, !.pc = "done",
              !.outcome = "Error",
              !.log = @ \cup { <<"error", JobId(t), "(deploy)">> }]

\* lines 436-438 and 490-491: on a client with scale the default scale is a
\* run of _deploy_app over the keys of the default structure, with no
\* existing rows
DeployTailEntered(j, b) ==
    IF structure = EmptyStructure /\ b # NoBuild
    THEN [j EXCEPT !.pc = "default", !.todo = DOMAIN DefaultStructure(b), !.existing = {}]
    ELSE [j EXCEPT !.pc = "done", !.outcome = "return"]

\* App.deploy on a client with scale and deploy, lines 416-428: create(),
\* the clones, and _deploy_app entered when there are clones
BeginDeployBulk(b) ==
    /\ job.pc = "idle"
    /\ hasScale /\ hasDeploy
    /\ version < MaxVersion
    /\ version' = version + 1
    /\ build' = b
    /\ \E answer \in {"ok", "Error"} :
          IF answer = "Error"
          THEN /\ job' = [NoJob EXCEPT !.op = "deploy", !.pc = "done", !.outcome = "Error",
                                       !.failed = "namespace"]
               /\ UNCHANGED containers
          ELSE /\ containers' = Cloned(containers, version + 1)
               /\ LET j == [NoJob EXCEPT
                              !.op = "deploy", !.pc = "deploy",
                              !.todo = TypesOf(Existing(containers)),
                              !.existing = Ids(containers, Types),
                              !.clones = { <<i[1], i[2], version + 1>> :
                                             i \in Ids(containers, Types) }]
                  IN  job' = IF Clones(containers) # {} THEN j
                             ELSE DeployTailEntered(j, b)
    /\ UNCHANGED <<structure, hasScale, hasDeploy, last, assignedMax, faults, restart>>

\* lines 442-469: the scheduler deploy for the next type of the set
DeployCall(t) ==
    /\ job.pc \in {"deploy", "default"}
    /\ t \in job.todo
    /\ \E ok \in BOOLEAN :
          job' = IF ok THEN [job EXCEPT !.called = Append(@, t), !.todo = @ \ {t}]
                 ELSE DeployFailed(job, t)
    /\ UNCHANGED containers
    /\ BulkUnchanged

\* line 470 after the last type: the existing rows are deleted; deploy goes
\* on to the default scale, _default_scale returns
DeployAppEnd ==
    /\ job.pc \in {"deploy", "default"}
    /\ job.todo = {}
    /\ containers' = DeleteRows(containers, PositionsOf(containers, job.existing))
    /\ job' = IF job.pc = "deploy" THEN DeployTailEntered(job, build)
              ELSE [job EXCEPT !.pc = "done", !.outcome = "return"]
    /\ BulkUnchanged

\* ----------------------------------------------------------- default scale
\* every build a release may carry: with or without a sha, with or without
\* a Dockerfile, without a procfile or with one of some keys
AllBuilds ==
    { Build(sha, dockerfile, procfile) :
        sha \in BOOLEAN, dockerfile \in BOOLEAN,
        procfile \in {NoProcfile, {}, {"web"}, {"worker"}, {"web", "worker"}} }

\* App._default_scale(user, release) on the release of the build of the
\* application
DefaultScaleCall ==
    /\ last.op # "default_scale"
    /\ \E h \in DefaultScale(containers, build, version) :
          /\ containers' = h.cs
          /\ faults' = faults + (IF h.raised THEN 1 ELSE 0)
          /\ last' = [op |-> "default_scale", arg |-> DefaultStructure(build),
                      outcome |-> IF h.raised THEN "RuntimeError" ELSE "ok",
                      ret |-> "None", calls |-> h.calls, again |-> FALSE,
                      pods |-> <<>>, deployed |-> FALSE]
    /\ UNCHANGED <<structure, version, build, hasScale, hasDeploy, assignedMax,
                   restart, job>>

\* ----------------------------------------------------------- specification

Init ==
    /\ containers = NoRows
    /\ structure = EmptyStructure
    /\ version = 1
    /\ build = NoBuild
    /\ hasScale \in BOOLEAN
    /\ hasDeploy = hasScale
    /\ faults = 0
    /\ last = [op |-> "init", arg |-> "", outcome |-> "ok", ret |-> "None",
               calls |-> {}, again |-> FALSE, pods |-> <<>>, deployed |-> FALSE]
    /\ restart = Idle
    /\ job = NoJob
    /\ assignedMax = NoneAssigned

Next ==
    \/ \E S \in Structures : Scale(S)
    \/ Run
    \/ \E b \in DeployBuilds \cup {NoBuild} : Deploy(b)

Spec == Init /\ [][Next]_vars

\* deploys and listings of the pods
NextPods ==
    \/ \E b \in DeployBuilds \cup {NoBuild} : Deploy(b)
    \/ ListPodsCall

SpecPods == Init /\ [][NextPods]_vars

\* an application on the bulk backend after its first deploy
Deployed ==
    /\ containers = NoRows
    /\ structure = EmptyStructure
    /\ version = 2
    /\ build = Build(TRUE, FALSE, {"web"})
    /\ hasScale = TRUE
    /\ hasDeploy = TRUE
    /\ last = [op |-> "deploy", arg |-> build, outcome |-> "ok", ret |-> "None",
               calls |-> {"ns_create", "deploy", "default"}, again |-> FALSE,
               pods |-> <<>>, deployed |-> FALSE]
    /\ assignedMax = NoneAssigned
    /\ faults = 0
    /\ restart = Idle
    /\ job = NoJob

NextRestart ==
    \/ \E kw \in RestartKwargs : RestartBegin(kw)
    \/ RestartDelete
    \/ RestartPoll
    \/ RestartFinal

\* restarts of the deployed application
SpecRestart == Deployed /\ [][NextRestart]_vars

\* a release with any build whose default scale is due
DefaultDue ==
    /\ containers = NoRows
    /\ structure = EmptyStructure
    /\ version = 2
    /\ build \in AllBuilds
    /\ hasScale \in BOOLEAN
    /\ hasDeploy = hasScale
    /\ last = [op |-> "deploy", arg |-> build, outcome |-> "ok", ret |-> "None",
               calls |-> {"ns_create"}, again |-> FALSE, pods |-> <<>>,
               deployed |-> FALSE]
    /\ assignedMax = NoneAssigned
    /\ faults = 0
    /\ restart = Idle
    /\ job = NoJob

SpecDefault == DefaultDue /\ [][DefaultScaleCall]_vars

\* an application scaled to some 'web' rows, with or without a 'run' row
Scaled ==
    /\ \E n \in 0..MaxBatch, m \in 0..1 :
          /\ containers = [NoRows EXCEPT !["web"] = NewRows(n, 1, 2),
                                         ![RunType] = NewRows(m, 1, 2)]
          /\ structure = [t \in {"web"} |-> n]
    /\ version = 2
    /\ build = Build(TRUE, FALSE, {"web"})
    /\ hasScale \in BOOLEAN
    /\ hasDeploy = hasScale
    /\ last = [op |-> "scale", arg |-> structure, outcome |-> "ok", ret |-> "True",
               calls |-> {"ns_create"}, again |-> FALSE, pods |-> <<>>,
               deployed |-> FALSE]
    /\ assignedMax = NoneAssigned
    /\ faults = 0
    /\ restart = Idle
    /\ job = NoJob

NextBulk ==
    \/ \E batch \in SUBSET Ids(containers, AllTypes) :
          \/ BeginStart(batch)
          \/ BeginRestartOld(batch)
          \/ BeginDestroy(batch)
    \/ BeginDelete
    \/ \E i \in job.batch :
          \/ Spawn(i)
          \/ \E phase \in Phases : TaskDone(phase, i)
    \/ JoinCreate
    \/ JoinStop
    \/ JoinStart
    \/ JoinDestroy

\* the bulk helpers and App.delete, thread by thread
SpecBulk == Scaled /\ [][NextBulk]_vars

\* the loop of restart goes on running: time.sleep returns and every call
\* of the scheduler client returns or raises
SpecRestartFair == SpecRestart /\ WF_vars(RestartPoll)

\* an application on a client with scale and deploy, not yet scaled or
\* scaled to rows of up to three types
ScaledBulk ==
    /\ \E n \in [Types -> 0..1] :
          /\ containers = [t \in AllTypes |->
                             IF t = RunType THEN <<>> ELSE NewRows(n[t], 1, 2)]
          /\ structure = IF \A t \in Types : n[t] = 0 THEN EmptyStructure ELSE n
    /\ version = 2
    /\ build = Build(TRUE, FALSE, {"web", "worker"})
    /\ hasScale = TRUE
    /\ hasDeploy = TRUE
    /\ last = [op |-> "scale", arg |-> structure, outcome |-> "ok", ret |-> "True",
               calls |-> {"ns_create", "scale"}, again |-> FALSE, pods |-> <<>>,
               deployed |-> FALSE]
    /\ assignedMax = NoneAssigned
    /\ faults = 0
    /\ restart = Idle
    /\ job = NoJob

NextDeployApp ==
    \/ \E b \in DeployBuilds \cup {NoBuild} : BeginDeployBulk(b)
    \/ \E t \in Types : DeployCall(t)
    \/ DeployAppEnd

\* deploys on a client with deploy, scheduler call by scheduler call
SpecDeployApp == ScaledBulk /\ [][NextDeployApp]_vars

TypeOK ==
    /\ version \in 1..MaxVersion
    /\ \A t \in AllTypes : \A i \in 1..Len(containers[t]) : containers[t][i].num >= 1

\* ------------------------------------------------------------------ claims
ScaleReturned == last.op = "scale" /\ last.outcome = "ok"

\* the indices of the rows of type t that the step appended
Appended(t) == (Len(containers[t]) + 1)..Len(containers'[t])

Nums(seq) == { seq[i].num : i \in 1..Len(seq) }

C2_Idempotent ==
    [][ (ScaleReturned /\ last'.op = "scale" /\ last'.arg = last.arg)
        => /\ containers' = containers
           /\ structure' = structure
           /\ last'.calls \subseteq {"ns_create"}
           /\ last'.outcome \in {"ok", "SchedulerError"}
           /\ last'.outcome = "ok" => last'.ret = "False" ]_vars

\* the second of two equal scales returned, on a structure with rows
C2_Witness ==
    /\ ScaleReturned
    /\ last.again
    /\ last.ret = "False"
    /\ \E t \in DOMAIN last.arg : last.arg[t] >= 1 /\ Len(containers[t]) = last.arg[t]

\* C3, as stated: a scale or run that ends in a validation rejection has
\* made no call to the scheduler client.
C3_NoCallAtAll ==
    (last.op \in {"scale", "run"} /\ last.outcome = "EnvironmentError")
        => last.calls = {}

\* C3, amended: a scale that ends in a validation rejection has made no call
\* to the scheduler client but the namespace call of create(), which scale
\* issues first; a run that ends in one has made no call at all.
C3_OnlyNamespaceCall ==
    /\ (last.op = "scale" /\ last.outcome = "EnvironmentError")
          => last.calls = {"ns_create"}
    /\ (last.op = "run" /\ last.outcome = "EnvironmentError")
          => last.calls = {}

\* a scale to an unknown type was rejected on an application with a build
C3_Witness ==
    /\ last.op = "scale"
    /\ last.outcome = "EnvironmentError"
    /\ build # NoBuild
    /\ last.calls = {"ns_create"}

\* C4: a scale whose structure names a type other than 'cmd' that the
\* build does not declare does not return, creates no row and leaves the
\* structure alone, whatever the counts; it raises the validation error
\* unless the namespace call of create() failed before the validation. A
\* scale on a build whose every requested type is declared or is 'cmd' is
\* never rejected by the validation.
C4_UnknownTypeRejected ==
    [][ last'.op = "scale"
        => /\ UnknownTypes(last'.arg, build) # {}
              => /\ containers' = containers
                 /\ structure' = structure
                 /\ \/ last'.outcome = "EnvironmentError"
                    \/ last'.outcome = "SchedulerError" /\ last'.calls = {"ns_create"}
           /\ (build # NoBuild /\ \A t \in DOMAIN last'.arg :
                                     t = "cmd" \/ t \in Procfile(build))
              => last'.outcome # "EnvironmentError" ]_vars

\* a scale was rejected for an undeclared type requested with count zero
\* beside 'cmd', on an application that has rows
C4_Witness ==
    /\ last.op = "scale"
    /\ last.outcome = "EnvironmentError"
    /\ build # NoBuild
    /\ \E t \in UnknownTypes(last.arg, build) : last.arg[t] = 0
    /\ "cmd" \in DOMAIN last.arg
    /\ \E t \in Types : Len(containers[t]) > 0

\* 'cmd' was scaled on a build that does not declare it
C4_CmdWitness ==
    /\ ScaleReturned
    /\ "cmd" \in DOMAIN last.arg
    /\ "cmd" \notin Procfile(build)
    /\ Len(containers["cmd"]) >= 1

\* C8: after a successful scale the structure has a key for every type with
\* a non-'run' row and for every requested type and no other; a type with
\* rows maps to their number, a requested type without rows to its
\* requested count, and every requested type to the number of its rows.
C8_StructurePersisted ==
    ScaleReturned
        => /\ DOMAIN structure =
                DOMAIN last.arg \cup { t \in Types : Len(containers[t]) > 0 }
           /\ \A t \in Types : Len(containers[t]) > 0 => structure[t] = Len(containers[t])
           /\ \A t \in DOMAIN last.arg :
                 /\ Len(containers[t]) = 0 => structure[t] = last.arg[t]
                 /\ structure[t] = Len(containers[t])

\* a scale returned with rows of a type it did not name, a 'run' row, and a
\* requested type without rows
C8_Witness ==
    /\ ScaleReturned
    /\ \E t \in Types \ DOMAIN last.arg : Len(containers[t]) > 0
    /\ \E t \in DOMAIN last.arg : Len(containers[t]) = 0
    /\ Len(containers[RunType]) > 0

\* C9, as stated: a successful scale that lowers a type to a smaller count
\* keeps the other rows as they were and removes rows whose nums are the
\* highest of the type: no removed row has a lower num than a kept one.
C9_HighestRemoved ==
    [][ (last'.op = "scale" /\ last'.outcome = "ok")
        => \A t \in DOMAIN last'.arg :
              last'.arg[t] < Len(containers[t])
              => /\ containers'[t] = SubSeq(containers[t], 1, last'.arg[t])
                 /\ \A i \in 1..last'.arg[t] :
                       \A j \in (last'.arg[t] + 1)..Len(containers[t]) :
                          containers[t][j].num >= containers[t][i].num ]_vars

\* C10: a run on an application whose latest release has no build raises
\* the validation error, leaves every row as it was and never reaches the
\* run primitive.
C10_RunNeedsBuild ==
    [][ (last'.op = "run" /\ build = NoBuild)
        => /\ last'.outcome = "EnvironmentError"
           /\ containers' = containers
           /\ "run" \notin last'.calls ]_vars

\* a run was rejected on an application that has rows and lost its build
C10_Witness ==
    /\ last.op = "run"
    /\ last.outcome = "EnvironmentError"
    /\ build = NoBuild
    /\ \E t \in Types : Len(containers[t]) > 0

\* C5, as stated: a listing without a requested release that directly
\* follows a successful deploy returns only pods of the version of the
\* deployed release and no pod of type 'run'.
C5_OnlyNewRelease ==
    (last.op = "list_pods" /\ last.deployed /\ last.arg.release = NoRelease
        /\ last.ret = "list")
        => \A i \in 1..Len(last.pods) :
              /\ last.pods[i].release = VersionLabel(version)
              /\ last.pods[i].type # RunType

\* C5, amended: a listing with neither a requested release nor an instance
\* name that directly follows a successful deploy returns only pods of the
\* version of the deployed release; a listing by name returns the named pod
\* whatever its version; no listing returns a pod of type 'run'.
C5_OnlyNewReleaseUnnamed ==
    (last.op = "list_pods" /\ last.deployed /\ last.ret = "list")
        => \A i \in 1..Len(last.pods) :
              /\ (last.arg.release = NoRelease /\ last.arg.name = NoName)
                    => last.pods[i].release = VersionLabel(version)
              /\ last.arg.name # NoName => last.pods[i].name = last.arg.name
              /\ last.pods[i].type # RunType

\* a listing after the deploy of the third release returned two pods of it
C5_Witness ==
    /\ last.op = "list_pods"
    /\ last.deployed
    /\ version = 3
    /\ last.arg = Kwargs(NoName, NoType, NoRelease)
    /\ Len(last.pods) = 2

\* C6: a restart whose loop never saw as many pods up as desired and ran
\* into the timeout logged the timeout as a warning, did not raise and
\* returned the list of its last listing, with or without a name.
C6_TimeoutReturnsList ==
    (restart.pc = "done" /\ restart.elapsed >= Timeout /\ ~restart.converged)
        => /\ "timeout" \in restart.warnings
           /\ restart.outcome = "return"
           /\ restart.ret = "list"

\* C7: a restart during which no controller and no pod matched and the
\* scheduler answered with nothing worse than 'not found' returns the empty
\* list and does not raise.
C7_NoMatchEmptyList ==
    (restart.pc = "done" /\ ~restart.matched /\ ~restart.errored)
        => /\ restart.outcome = "return"
           /\ restart.ret = "list"
           /\ restart.pods = <<>>

\* C11: for a build with or without a sha, with or without a Dockerfile, and
\* without a procfile, with a procfile that has 'web' or with a non-empty
\* procfile that lacks it, default scale chooses {'web': 1} exactly when
\* there is a sha, it is not so that there is a Dockerfile and no procfile,
\* and it is not so that there is a procfile lacking 'web'; otherwise it
\* chooses {'cmd': 1}. On a client without scale the row of a default scale
\* that returned has the chosen type.
C11_DefaultChoice ==
    (last.op = "default_scale" /\ build.procfile # {})
        => LET absent == build.procfile = NoProcfile
               lacksWeb == ~absent /\ "web" \notin build.procfile
               web == /\ build.sha
                      /\ ~(build.dockerfile /\ absent)
                      /\ ~lacksWeb
               key == IF web THEN "web" ELSE "cmd"
           IN  /\ last.arg = [t \in {key} |-> 1]
               /\ (~hasScale /\ last.outcome = "ok")
                     => \A t \in AllTypes :
                           Len(containers[t]) = IF t = key THEN 1 ELSE 0

\* the default scale of a build with a sha, a Dockerfile and a procfile with
\* 'web' created a 'web' row
C11_Witness ==
    /\ last.op = "default_scale"
    /\ last.outcome = "ok"
    /\ ~hasScale
    /\ build = Build(TRUE, TRUE, {"web", "worker"})
    /\ Len(containers["web"]) = 1

\* the default scale of a build with a sha, a Dockerfile and no procfile
\* chose 'cmd'
C11_DockerfileWitness ==
    /\ last.op = "default_scale"
    /\ build = Build(TRUE, TRUE, NoProcfile)
    /\ last.arg = [t \in {"cmd"} |-> 1]

\* the create of some record of the batch of a finished _start_containers
\* did not reach 'created'
CreateFailed == job.op = "start" /\ job.pc = "done" /\ job.reached # job.batch

\* C12, as stated: when after the create join a record of the batch has not
\* reached 'created', a destroy is issued for every record of the batch,
\* the helper fails with RuntimeError and no record of the batch remains
\* persisted.
C12_AllOrNothing ==
    CreateFailed
        => /\ \A i \in job.batch : job.destroy_threads[i] # "new"
           /\ job.outcome = "RuntimeError"
           /\ \A i \in job.batch : ~Persisted(containers, i)

\* C12, amended: when after the create join a record of the batch has not
\* reached 'created', the error is logged, a destroy is issued for every
\* record of the batch and the helper fails with RuntimeError; afterwards
\* the records that reached 'destroyed' are not persisted and the records
\* whose destroy failed remain persisted.
C12_DestroyedOrKept ==
    CreateFailed
        => /\ \A i \in job.batch : job.destroy_threads[i] = "done"
           /\ job.outcome = "RuntimeError"
           /\ "error: create" \in job.log
           /\ \A i \in job.batch :
                 Persisted(containers, i) <=> job.state[i] # "destroyed"

\* of a batch of two, one record was created and the other not, and both
\* were destroyed
C12_Witness ==
    /\ CreateFailed
    /\ Cardinality(job.batch) = 2
    /\ Cardinality(job.reached) = 1
    /\ \A i \in job.batch : job.state[i] = "destroyed" /\ ~Persisted(containers, i)

\* C13: in _start_containers and in _restart_containers no start thread is
\* started before the create (the stop) thread of every record of the
\* batch has finished, whatever the order in which the threads run; in
\* _start_containers none is started unless every record reached 'created'.
C13_PhasesApart ==
    \A i \in job.batch :
        job.start_threads[i] # "new"
            => /\ job.op = "start"
                    => /\ \A k \in job.batch : job.create_threads[k] = "done"
                       /\ job.reached = job.batch
               /\ job.op = "restart"
                    => \A k \in job.batch : job.stop_threads[k] = "done"
               /\ job.op \in {"start", "restart"}

\* in a restart of two records whose stops finished, one of them failed,
\* the start of one record runs while the other is not started yet
C13_Witness ==
    /\ job.op = "restart"
    /\ Cardinality(job.batch) = 2
    /\ \E i \in job.batch : job.start_threads[i] = "running"
    /\ \E i \in job.batch : job.start_threads[i] = "new" /\ job.state[i] = "error"

\* in a start of two records the start of one has finished while the start
\* of the other is still running
C13_StartWitness ==
    /\ job.op = "start"
    /\ \E i \in job.batch : job.start_threads[i] = "done"
    /\ \E i \in job.batch : job.start_threads[i] = "running"

\* C14: when _destroy_containers has finished on a client without scale,
\* the row of a record of the batch is deleted if and only if the record
\* reached 'destroyed', and the helper raised RuntimeError if and only if
\* some record of the batch did not reach 'destroyed'.
C14_DestroyedDeleted ==
    (job.op = "destroy" /\ job.pc = "done" /\ ~hasScale)
        => /\ \A i \in job.batch :
                 ~Persisted(containers, i) <=> job.state[i] = "destroyed"
           /\ job.outcome = "RuntimeError"
                 <=> \E i \in job.batch : job.state[i] # "destroyed"
           /\ job.outcome \in {"return", "RuntimeError"}
           /\ \A i \in job.batch : job.destroy_threads[i] = "done"

\* of a batch of two, one record was destroyed and the other was not
C14_Witness ==
    /\ job.op = "destroy"
    /\ job.pc = "done"
    /\ ~hasScale
    /\ Cardinality(job.batch) = 2
    /\ \E i \in job.batch : job.state[i] = "destroyed" /\ ~Persisted(containers, i)
    /\ \E i \in job.batch : job.state[i] # "destroyed" /\ Persisted(containers, i)
    /\ job.outcome = "RuntimeError"

\* C20: when every record of the batch of _start_containers reached
\* 'created' and after the start join some record is not 'up', the helper
\* returns, logs a warning, issues no destroy and leaves every record of
\* the batch persisted.
C20_StartBestEffort ==
    (job.op = "start" /\ job.pc = "done" /\ job.batch # {} /\ job.reached = job.batch
        /\ \E i \in job.batch : job.state[i] # "up")
        => /\ job.outcome = "return"
           /\ "warning: start" \in job.log
           /\ "error: create" \notin job.log
           /\ \A i \in job.batch : job.destroy_threads[i] = "new"
           /\ \A i \in job.batch : Persisted(containers, i)

\* of a batch of two created records one came up and the other crashed
C20_Witness ==
    /\ job.op = "start"
    /\ job.pc = "done"
    /\ Cardinality(job.batch) = 2
    /\ job.reached = job.batch
    /\ \E i \in job.batch : job.state[i] = "up"
    /\ \E i \in job.batch : job.state[i] = "crashed"
    /\ job.outcome = "return"

\* C19: in every App.delete in which the destroy of some non-'run' record
\* did not reach 'destroyed', the application is not deleted.
C19_DeletedAfterTeardown ==
    (job.op = "delete" /\ job.pc = "done"
        /\ \E i \in job.batch : job.destroy_threads[i] = "done" /\ job.state[i] # "destroyed")
        => ~job.deleted

\* C15: in the cleanup of a restart a delete is issued for every pod the
\* listing returned, also after the delete of an earlier pod failed; the
\* failure is logged as a warning and the restart goes on.
C15_EveryListedDeleted ==
    (restart.resolved /\ restart.pc # "delete")
        => /\ restart.deletes = restart.listed
           /\ restart.deletes < restart.listed => "stop" \in restart.warnings

\* C16: a restart that resolved its target leaves its loop only after a
\* poll saw as many pods up as desired or after the elapsed time reached
\* the timeout, never for an error of a listing or of the lookup of the
\* newest name.
C16_WaitsUntilUpOrTimeout ==
    (restart.resolved /\ restart.pc \in {"final", "done"})
        => restart.converged \/ restart.elapsed >= Timeout

\* C17: the loop of restart ends whatever the scheduler answers: the
\* elapsed time is 0 before the first poll and grows by 5 with every poll
\* that did not see the desired count, no poll is made once it has reached
\* 300, and at most 60 polls are made.
C17_LoopTerminates ==
    /\ [](/\ restart.pc = "poll" => restart.elapsed = Interval * restart.polls
          /\ restart.elapsed <= Timeout
          /\ restart.polls <= Timeout \div Interval)
    /\ [][ restart.pc = "poll"
           => /\ restart.elapsed >= Timeout
                 => (restart'.polls = restart.polls /\ restart'.pc = "final")
              /\ restart'.pc = "poll"
                 => /\ restart'.elapsed = restart.elapsed + Interval
                    /\ restart'.polls = restart.polls + 1
                    /\ ~restart'.converged ]_vars
    /\ (restart.pc = "poll" ~> restart.pc = "final")

\* the loop was left at the timeout after its sixtieth poll
C17_Witness ==
    /\ restart.pc = "final"
    /\ restart.polls = 60
    /\ restart.elapsed = Timeout
    /\ "timeout" \in restart.warnings

\* C18: when in a deploy on a client with deploy the scheduler deploy call
\* fails for a type, that call is the last deploy call (the types left in
\* the loop get none), the error is logged with the job id of the type, the
\* failure reaches the caller of deploy, and no row is deleted: the old
\* rows and their clones are all persisted.
C18_DeployFailureAborts ==
    (job.op = "deploy" /\ job.failed \in Types)
        => /\ job.pc = "done"
           /\ job.outcome = "Error"
           /\ job.called[Len(job.called)] = job.failed
           /\ \A i, k \in 1..Len(job.called) : job.called[i] = job.called[k] => i = k
           /\ \A t \in job.todo \ {job.failed} :
                 \A i \in 1..Len(job.called) : job.called[i] # t
           /\ <<"error", JobId(job.failed), "(deploy)">> \in job.log
           /\ \A i \in job.existing \cup job.clones : Persisted(containers, i)

\* the deploy call failed for the second of three types with rows
C18_Witness ==
    /\ job.op = "deploy"
    /\ job.failed \in Types
    /\ Len(job.called) = 2
    /\ Cardinality(job.todo) = 2
    /\ Cardinality(job.existing) = 3
    /\ \A i \in job.existing \cup job.clones : Persisted(containers, i)

\* C21: a scale that raises, for a validation failure or a failure of the
\* scheduler, leaves the rows and the structure as they were when it was
\* called.
C21_FailedScaleChangesNothing ==
    [][ (last'.op = "scale" /\ last'.outcome # "ok")
        => /\ containers' = containers
           /\ structure' = structure ]_vars

\* C22: after every scale, deploy and run, returned or raised, no two
\* non-'run' rows have the same type and num.
C22_UniqueOrdinals ==
    \A t \in Types : \A i, k \in 1..Len(containers[t]) :
        containers[t][i].num = containers[t][k].num => i = k

\* the non-'run' rows among the rows cs
NonRunRows(cs) == UNION { { <<t, i>> : i \in 1..Len(cs[t]) } : t \in Types }

\* C23: on a client without scale, on an application with an empty
\* structure whose deploys of releases with a build have all succeeded and
\* left one non-'run' row, the next successful deploy of a release with a
\* build leaves one non-'run' row again; the first such deploy of an
\* application without rows leaves one.
C23_DefaultScaleOnce ==
    [][ ( /\ ~hasScale
          /\ structure = EmptyStructure
          /\ faults = 0
          /\ \/ last.op = "init" /\ NonRunRows(containers) = {}
             \/ /\ last.op = "deploy" /\ last.outcome = "ok" /\ build # NoBuild
                /\ Cardinality(NonRunRows(containers)) = 1
          /\ last'.op = "deploy" /\ last'.outcome = "ok" /\ build' # NoBuild )
        => Cardinality(NonRunRows(containers')) = 1 ]_vars
=============================================================================
